---- MODULE Spec2Model ----
(***************************************************************************)
(* B+ tree over an arena of nodes (src/src/main.rs).  Handles are 0-based  *)
(* positions in the arena `nodes`, vectors are TLA+ sequences read through *)
(* 0-based helpers, strings are modelled by integers with the same order   *)
(* ("a" = 1, "b" = 2, ...), Option<usize> by a handle or None.             *)
(***************************************************************************)
EXTENDS Integers, Sequences, FiniteSets, TLC

\* ---------------------------------------------------------------- bounds
MaxKey == 3
MaxVal == 2
MaxNodes == 4
MaxDeepKey == 4
MaxDeepNodes == 10
MaxOrderIn == 4

Keys == 1..MaxKey
Values == 1..MaxVal
DeepKeys == 1..MaxDeepKey

\* ------------------------------------------------------- option / markers
None == -1
\* marker returned by search_leaf when its while-loop never exits
Diverge == -2

\* order, nodes, root, first_leaf: the fields of BPTree
\* status:   "ready", or "hung" once a call of put or get never returns
\* ref:      the value of the last returned put of every key put so far
\* last_get: what the last get returned, NoCall after a put
\* step:     how many puts of main() have been made (SpecMain only)
VARIABLES order, nodes, root, first_leaf, status, ref, last_get, step

vars == <<order, nodes, root, first_leaf, status, ref, last_get, step>>

\* ------------------------------------------------------------ Vec helpers
\* v[i] with a 0-based index
At(v, i) == v[i + 1]

\* Vec::insert(idx, x) with a 0-based index
VecInsert(v, idx, x) == SubSeq(v, 1, idx) \o <<x>> \o SubSeq(v, idx + 1, Len(v))

\* slice::binary_search_by on a strictly ascending vector of keys:
\* Ok(idx) of the equal element, or Err(idx) of the insertion point
binary_search(ks, key) ==
    IF \E i \in 1..Len(ks) : ks[i] = key
    THEN [ok |-> TRUE, idx |-> (CHOOSE i \in 1..Len(ks) : ks[i] = key) - 1]
    ELSE [ok |-> FALSE, idx |-> Cardinality({i \in 1..Len(ks) : ks[i] < key})]

\* ------------------------------------------------------------------ nodes
BPTreeKeyValue(k, v) == [key |-> k, value |-> v]

Internal(p, c, ks) == [kind |-> "Internal", parent |-> p, child |-> c, keys |-> ks]

Leaf(p, n, es) == [kind |-> "Leaf", parent |-> p, next |-> n, kvs |-> es]

IsInternal(ns, off) == off >= 0 /\ off < Len(ns) /\ At(ns, off).kind = "Internal"

IsLeaf(ns, off) == off >= 0 /\ off < Len(ns) /\ At(ns, off).kind = "Leaf"

KeysOf(kvs) == [i \in 1..Len(kvs) |-> kvs[i].key]

\* split with a leaf divided one entry too far to the right
split_leaf_off_by_one(node) ==
    IF node.kind = "Internal"
    THEN LET at == Len(node.child) \div 2
             center_and_right_key == SubSeq(node.keys, at + 1, Len(node.keys))
         IN [self |-> Internal(node.parent,
                               SubSeq(node.child, 1, at + 1),
                               SubSeq(node.keys, 1, at)),
             new  |-> Internal(node.parent,
                               SubSeq(node.child, at + 2, Len(node.child)),
                               SubSeq(center_and_right_key, 2, Len(center_and_right_key)))]
    ELSE LET at == Len(node.kvs) \div 2 + 1
         IN [self |-> Leaf(node.parent, node.next, SubSeq(node.kvs, 1, at)),
             new  |-> Leaf(node.parent, None, SubSeq(node.kvs, at + 1, Len(node.kvs)))]

\* split whose new internal node keeps the key at the boundary
split_keeps_center(node) ==
    IF node.kind = "Internal"
    THEN LET at == Len(node.child) \div 2
             center_and_right_key == SubSeq(node.keys, at + 1, Len(node.keys))
         IN [self |-> Internal(node.parent,
                               SubSeq(node.child, 1, at + 1),
                               SubSeq(node.keys, 1, at)),
             new  |-> Internal(node.parent,
                               SubSeq(node.child, at + 2, Len(node.child)),
                               center_and_right_key)]
    ELSE LET at == Len(node.kvs) \div 2
         IN [self |-> Leaf(node.parent, node.next, SubSeq(node.kvs, 1, at)),
             new  |-> Leaf(node.parent, None, SubSeq(node.kvs, at + 1, Len(node.kvs)))]

\* BPTreeNode::split: self keeps the lower half, new is the returned node
split(node) ==
    IF node.kind = "Internal"
    THEN LET at == Len(node.child) \div 2
             center_and_right_key == SubSeq(node.keys, at + 1, Len(node.keys))
         IN [self |-> Internal(node.parent,
                               SubSeq(node.child, 1, at + 1),
                               SubSeq(node.keys, 1, at)),
             new  |-> Internal(node.parent,
                               SubSeq(node.child, at + 2, Len(node.child)),
                               SubSeq(center_and_right_key, 2, Len(center_and_right_key)))]
    ELSE LET at == Len(node.kvs) \div 2
         IN [self |-> Leaf(node.parent, node.next, SubSeq(node.kvs, 1, at)),
             new  |-> Leaf(node.parent, None, SubSeq(node.kvs, at + 1, Len(node.kvs)))]

set_parent_offset(node, offset) == [node EXCEPT !.parent = offset]

\* push_data(node, _, key) finds the key present and changes nothing
push_is_noop(node, key) ==
    node.kind = "Internal" /\ binary_search(node.keys, key).ok

\* push_data that stores the key and drops the child handle
push_data_keys_only(node, new_child, key) ==
    IF node.kind = "Internal"
    THEN LET r == binary_search(node.keys, key)
         IN IF r.ok
            THEN node
            ELSE [node EXCEPT !.keys = VecInsert(node.keys, r.idx, key)]
    ELSE node

\* push_data that puts the child handle before the key instead of after it
push_data_child_at_idx(node, new_child, key) ==
    IF node.kind = "Internal"
    THEN LET r == binary_search(node.keys, key)
         IN IF r.ok
            THEN node
            ELSE [node EXCEPT !.keys = VecInsert(node.keys, r.idx, key),
                              !.child = VecInsert(node.child, r.idx, new_child)]
    ELSE node

push_data(node, new_child, key) ==
    IF node.kind = "Internal"
    THEN LET r == binary_search(node.keys, key)
         IN IF r.ok
            THEN node
            ELSE [node EXCEPT !.keys = VecInsert(node.keys, r.idx, key),
                              !.child = VecInsert(node.child, r.idx + 1, new_child)]
    ELSE node

\* ------------------------------------------------------------------- tree
\* new that keeps an even order
new_keeps_even(o) ==
    [order |-> IF o < 3 THEN 3 ELSE o,
     nodes |-> <<Leaf(None, None, <<>>)>>,
     root |-> 0,
     first_leaf |-> 0]

new(o) ==
    [order |-> IF o % 2 = 0 THEN o + 1 ELSE IF o < 3 THEN 3 ELSE o,
     nodes |-> <<Leaf(None, None, <<>>)>>,
     root |-> 0,
     first_leaf |-> 0]

\* insert_non_full that puts a new entry in front instead of at its place
insert_non_full_front(kvs, kv) ==
    LET r == binary_search(KeysOf(kvs), kv.key)
    IN IF r.ok
       THEN IF kv.key = At(kvs, r.idx).key
            THEN [kvs EXCEPT ![r.idx + 1].value = kv.value]
            ELSE kvs
       ELSE VecInsert(kvs, 0, kv)

insert_non_full(kvs, kv) ==
    LET r == binary_search(KeysOf(kvs), kv.key)
    IN IF r.ok
       THEN IF kv.key = At(kvs, r.idx).key
            THEN [kvs EXCEPT ![r.idx + 1].value = kv.value]
            ELSE kvs
       ELSE VecInsert(kvs, r.idx, kv)

\* one round of the loop of search_leaf at the internal node n: the next offset
search_step(n, key) ==
    LET r == binary_search(n.keys, key)
    IN IF r.ok THEN At(n.child, r.idx) + 1 ELSE At(n.child, r.idx)

RECURSIVE search_from(_, _, _, _)
\* the loop of search_leaf; `seen` holds the offsets the loop has been at:
\* the loop's only state is `offset`, so a repeated offset repeats forever
search_from(ns, offset, key, seen) ==
    IF offset \in seen
    THEN Diverge
    ELSE IF IsInternal(ns, offset)
         THEN search_from(ns, search_step(At(ns, offset), key), key,
                          seen \cup {offset})
         ELSE offset

RECURSIVE search_path(_, _, _, _)
\* the offsets of the internal nodes the loop of search_leaf is at, in turn
search_path(ns, offset, key, seen) ==
    IF offset \in seen \/ ~IsInternal(ns, offset)
    THEN {}
    ELSE {offset} \cup search_path(ns, search_step(At(ns, offset), key), key,
                                   seen \cup {offset})

search_leaf(ns, root_offset, key) == search_from(ns, root_offset, key, {})

\* update_child_parent that leaves the children's parent fields alone
update_child_parent_skipped(ns, new_child_idx) == ns

update_child_parent(ns, new_child_idx) ==
    IF ~IsInternal(ns, new_child_idx)
    THEN ns
    ELSE LET childs == At(ns, new_child_idx).child
         IN [i \in 1..Len(ns) |->
               IF \E j \in 1..Len(childs) : childs[j] = i - 1
               THEN [ns[i] EXCEPT !.parent = new_child_idx]
               ELSE ns[i]]

\* the key split_nodes promotes from a full internal node, read before split
center_key_of(node, ord) == At(node.keys, ord \div 2)

RECURSIVE split_loop(_, _, _, _, _)
\* the while-loop of split_nodes over (curr_parent_offset,
\* new_right_child_offset, new_right_key); yields the arena, the return value
\* and noop: whether a call of push_data found its key present
split_loop(ns, curr_parent_offset, new_right_child_offset, new_right_key, ord) ==
    IF new_right_child_offset = None \/ curr_parent_offset = None
       \/ ~IsInternal(ns, curr_parent_offset)
    THEN [nodes |-> ns, ret |-> None, noop |-> FALSE]
    ELSE LET parent_node == At(ns, curr_parent_offset)
             next_parent == parent_node.parent
         IN IF Len(parent_node.keys) = ord - 1
            THEN LET center_key == center_key_of(parent_node, ord)
                 IN IF parent_node.parent = None
                    THEN LET old_node_offset == curr_parent_offset
                             new_root_node_offset == Len(ns)
                             ns1 == Append(ns, Internal(None, <<old_node_offset>>, <<>>))
                             sp == split(set_parent_offset(At(ns1, old_node_offset),
                                                           new_root_node_offset))
                             ns2 == [ns1 EXCEPT ![old_node_offset + 1] = sp.self]
                             right_node == push_data(
                                 set_parent_offset(sp.new, new_root_node_offset),
                                 new_right_child_offset, new_right_key)
                             new_child_offset == Len(ns2)
                             ns3 == update_child_parent(Append(ns2, right_node),
                                                        new_child_offset)
                             rest == split_loop(ns3, new_root_node_offset,
                                                new_child_offset, center_key, ord)
                         IN [rest EXCEPT
                               !.noop = @ \/ push_is_noop(sp.new, new_right_key)]
                    ELSE LET parent_offset == parent_node.parent
                             sp == split(parent_node)
                             ns1 == [ns EXCEPT ![curr_parent_offset + 1] = sp.self]
                             new_node == push_data(
                                 set_parent_offset(sp.new, parent_offset),
                                 new_right_child_offset, new_right_key)
                             new_child_offset == Len(ns1)
                             ns2 == update_child_parent(Append(ns1, new_node),
                                                        new_child_offset)
                             rest == split_loop(ns2, parent_offset,
                                                new_child_offset, center_key, ord)
                         IN [rest EXCEPT
                               !.noop = @ \/ push_is_noop(sp.new, new_right_key)]
            ELSE LET ns1 == [ns EXCEPT ![curr_parent_offset + 1] =
                                push_data(parent_node, new_right_child_offset,
                                          new_right_key)]
                     found == push_is_noop(parent_node, new_right_key)
                 IN IF next_parent = None
                    THEN [nodes |-> ns1, ret |-> curr_parent_offset, noop |-> found]
                    ELSE [split_loop(ns1, next_parent, None, None, ord)
                            EXCEPT !.noop = found]

\* split_nodes that links the new leaf one level above the leaf's parent
split_nodes_level_up(ns, right_leaf_offset, right_leaf_key, parent, ord) ==
    split_loop(ns, IF At(ns, parent).parent # None THEN At(ns, parent).parent
                   ELSE parent,
               right_leaf_offset, right_leaf_key, ord)

\* BPTree::split_nodes: the loop entered at the parent of the split leaf
split_nodes(ns, right_leaf_offset, right_leaf_key, parent, ord) ==
    split_loop(ns, parent, right_leaf_offset, right_leaf_key, ord)

insert_full(ns, kv, old_leaf_offset, new_leaf_offset, ord) ==
    IF ~(IsLeaf(ns, new_leaf_offset) /\ IsLeaf(ns, old_leaf_offset))
    THEN [nodes |-> ns, ret |-> None, noop |-> FALSE]
    ELSE LET old_leaf == At(ns, old_leaf_offset)
             new_leaf == At(ns, new_leaf_offset)
             parent == old_leaf.parent
             key == At(new_leaf.kvs, 0).key
             old1 == [old_leaf EXCEPT !.next = new_leaf_offset,
                        !.kvs = IF key > kv.key THEN insert_non_full(@, kv) ELSE @]
             new1 == [new_leaf EXCEPT !.parent = parent, !.next = old_leaf.next,
                        !.kvs = IF key > kv.key THEN @ ELSE insert_non_full(@, kv)]
             ns1 == [ns EXCEPT ![old_leaf_offset + 1] = old1,
                               ![new_leaf_offset + 1] = new1]
         IN IF parent = None
            THEN LET new_root_offset == Len(ns1)
                     ns2 == Append(ns1, Internal(None,
                                       <<old_leaf_offset, new_leaf_offset>>, <<key>>))
                 IN [nodes |-> [ns2 EXCEPT
                                  ![new_leaf_offset + 1].parent = new_root_offset,
                                  ![old_leaf_offset + 1].parent = new_root_offset],
                     ret |-> new_root_offset, noop |-> FALSE]
            ELSE split_nodes(ns1, new_leaf_offset, key, parent, ord)

\* insert that splits a leaf one entry too late
insert_late_split(ns, kv, leaf_offset, ord) ==
    IF IsLeaf(ns, leaf_offset)
    THEN IF Len(At(ns, leaf_offset).kvs) = ord
         THEN LET sp == split(At(ns, leaf_offset))
                  ns1 == Append([ns EXCEPT ![leaf_offset + 1] = sp.self], sp.new)
                  new_leaf_offset == Len(ns1) - 1
              IN insert_full(ns1, kv, leaf_offset, new_leaf_offset, ord)
         ELSE [nodes |-> [ns EXCEPT ![leaf_offset + 1].kvs = insert_non_full(@, kv)],
               ret |-> None, noop |-> FALSE]
    ELSE [nodes |-> ns, ret |-> None, noop |-> FALSE]

insert(ns, kv, leaf_offset, ord) ==
    IF IsLeaf(ns, leaf_offset)
    THEN IF Len(At(ns, leaf_offset).kvs) = ord - 1
         THEN LET sp == split(At(ns, leaf_offset))
                  ns1 == Append([ns EXCEPT ![leaf_offset + 1] = sp.self], sp.new)
                  new_leaf_offset == Len(ns1) - 1
              IN insert_full(ns1, kv, leaf_offset, new_leaf_offset, ord)
         ELSE [nodes |-> [ns EXCEPT ![leaf_offset + 1].kvs = insert_non_full(@, kv)],
               ret |-> None, noop |-> FALSE]
    ELSE [nodes |-> ns, ret |-> None, noop |-> FALSE]

\* put that never takes the new root
put_keeps_root(ns, rt, ord, key, value) ==
    LET leaf_offset == search_leaf(ns, rt, key)
    IN IF leaf_offset = Diverge
       THEN [status |-> "hung", nodes |-> ns, root |-> rt]
       ELSE LET r == insert(ns, BPTreeKeyValue(key, value), leaf_offset, ord)
            IN [status |-> "ready", nodes |-> r.nodes, root |-> rt]

\* BPTree::put on the tree (ns, rt, ord): the tree it leaves, or "hung"
\* when the call never returns
put(ns, rt, ord, key, value) ==
    LET leaf_offset == search_leaf(ns, rt, key)
    IN IF leaf_offset = Diverge
       THEN [status |-> "hung", nodes |-> ns, root |-> rt]
       ELSE LET r == insert(ns, BPTreeKeyValue(key, value), leaf_offset, ord)
            IN [status |-> "ready", nodes |-> r.nodes,
                root |-> IF r.ret # None THEN r.ret ELSE rt]

\* put(key, value) on the tree (ns, rt, ord) makes a call of push_data that
\* finds its key present
put_skips_push(ns, rt, ord, key, value) ==
    LET leaf_offset == search_leaf(ns, rt, key)
    IN /\ leaf_offset # Diverge
       /\ insert(ns, BPTreeKeyValue(key, value), leaf_offset, ord).noop

get(ns, rt, key) ==
    LET leaf_offset == search_leaf(ns, rt, key)
    IN IF leaf_offset = Diverge
       THEN [status |-> "hung", ret |-> <<>>]
       ELSE IF IsLeaf(ns, leaf_offset)
            THEN LET kvs == At(ns, leaf_offset).kvs
                     r == binary_search(KeysOf(kvs), key)
                 IN [status |-> "ready",
                     ret |-> IF r.ok THEN <<At(kvs, r.idx)>> ELSE <<>>]
            ELSE [status |-> "ready", ret |-> <<>>]

\* ---------------------------------------------------------- state machine
NoCall == <<"none">>

RefPut(m, key, value) ==
    [k \in DOMAIN m \cup {key} |-> IF k = key THEN value ELSE m[k]]

\* the tree is the one BPTree::new(o) builds
Built(o) ==
    LET t == new(o)
    IN /\ order = t.order
       /\ nodes = t.nodes
       /\ root = t.root
       /\ first_leaf = t.first_leaf

Init ==
    /\ \E o \in 1..MaxOrderIn : Built(o)
    /\ status = "ready"
    /\ ref = <<>>
    /\ last_get = NoCall
    /\ step = 0

\* one call of put
PutCall(key, value) ==
    /\ status = "ready"
    /\ LET r == put(nodes, root, order, key, value)
       IN /\ status' = r.status
          /\ nodes' = r.nodes
          /\ root' = r.root
          /\ ref' = IF r.status = "ready" THEN RefPut(ref, key, value) ELSE ref
    /\ last_get' = NoCall
    /\ UNCHANGED <<order, first_leaf>>

\* the arena put(key, value) leaves holds at most `cap` nodes
Fits(key, value, cap) == Len(put(nodes, root, order, key, value).nodes) <= cap

Put(key, value) ==
    /\ Fits(key, value, MaxNodes)
    /\ PutCall(key, value)
    /\ UNCHANGED step

Get(key) ==
    /\ status = "ready"
    /\ LET r == get(nodes, root, key)
       IN /\ status' = r.status
          /\ last_get' = <<"get", key, r.ret>>
    /\ UNCHANGED <<order, nodes, root, first_leaf, ref, step>>

Next == (\E key \in Keys, value \in Values : Put(key, value))
        \/ (\E key \in Keys : Get(key))

Spec == Init /\ [][Next]_vars

\* puts that all carry the same value, on a larger arena: the shapes of the
\* tree do not depend on the values, and the arena gets three levels deep
DeepPut(key) ==
    /\ Fits(key, 1, MaxDeepNodes)
    /\ PutCall(key, 1)
    /\ UNCHANGED step

NextDeep == (\E key \in DeepKeys : DeepPut(key)) \/ (\E key \in DeepKeys : Get(key))

SpecDeep == Init /\ [][NextDeep]_vars

\* the puts of main(), in its order: d a b d e c f g h i j k l m n
Script ==
    << <<4, 1>>, <<1, 1>>, <<2, 1>>, <<4, 2>>, <<5, 1>>, <<3, 1>>, <<6, 1>>,
       <<7, 1>>, <<8, 1>>, <<9, 7>>, <<10, 1>>, <<11, 1>>, <<12, 1>>,
       <<13, 9>>, <<14, 1>> >>

ScriptKeys == {Script[i][1] : i \in 1..Len(Script)}

InitMain ==
    /\ Built(5)
    /\ status = "ready"
    /\ ref = <<>>
    /\ last_get = NoCall
    /\ step = 0

MainPut ==
    /\ step < Len(Script)
    /\ PutCall(Script[step + 1][1], Script[step + 1][2])
    /\ step' = step + 1

NextMain == MainPut \/ (\E key \in ScriptKeys : Get(key))

SpecMain == InitMain /\ [][NextMain]_vars

\* ------------------------------------------------------ shape of the arena
Handles == 0..(Len(nodes) - 1)

LeafHandles == {h \in Handles : At(nodes, h).kind = "Leaf"}

InternalHandles == {h \in Handles : At(nodes, h).kind = "Internal"}

StrictlyAscending(ks) == \A i \in 1..(Len(ks) - 1) : ks[i] < ks[i + 1]

RECURSIVE leftmost_from(_, _, _)
\* the leaf reached from `off` by always following child[0]; None when the
\* walk leaves the arena or comes back to a node it has been at
leftmost_from(ns, off, seen) ==
    IF off \in seen \/ off < 0 \/ off >= Len(ns)
    THEN None
    ELSE IF At(ns, off).kind = "Leaf"
         THEN off
         ELSE IF Len(At(ns, off).child) = 0
              THEN None
              ELSE leftmost_from(ns, At(At(ns, off).child, 0), seen \cup {off})

\* ------------------------------------------------------------------ claims

\* C1: after any sequence of puts, get agrees with the reference map: every
\* key that was put is found with the value of its most recent put, and a key
\* that was never put is not found.
C1_GetAgreesWithRef ==
    status = "ready" =>
        \A k \in Keys :
            get(nodes, root, k) =
                [status |-> "ready",
                 ret |-> IF k \in DOMAIN ref
                         THEN <<BPTreeKeyValue(k, ref[k])>>
                         ELSE <<>>]

\* C2: every call of get and of put terminates and returns: no call is ever
\* left running forever.
C2_OperationsTotal == status # "hung"

\* C3: no key is stored in more than one leaf entry over all leaves of the
\* arena.
C3_KeysUnique ==
    \A g \in LeafHandles, h \in LeafHandles :
        \A i \in 1..Len(At(nodes, g).kvs), j \in 1..Len(At(nodes, h).kvs) :
            At(nodes, g).kvs[i].key = At(nodes, h).kvs[j].key => g = h /\ i = j

\* C4: put is idempotent: a second put(k, v) right after a put(k, v) that
\* returned leaves the arena and the root handle as the first put left them.
C4_PutIdempotent ==
    status = "ready" =>
        \A k \in Keys, v \in Values :
            LET once == put(nodes, root, order, k, v)
            IN once.status = "ready" =>
                   put(once.nodes, once.root, order, k, v) = once

\* C5: after every put, every leaf holds at most order-1 entries and every
\* internal node at most order-1 separator keys and at most order children.
C5_CapacityBound ==
    /\ \A h \in LeafHandles : Len(At(nodes, h).kvs) <= order - 1
    /\ \A h \in InternalHandles :
          /\ Len(At(nodes, h).keys) <= order - 1
          /\ Len(At(nodes, h).child) <= order

\* a non-root internal node has been split, and a full leaf and a full
\* internal node exist
C5_Witness ==
    /\ status = "ready"
    /\ Cardinality(InternalHandles) >= 4
    /\ \E h \in LeafHandles : Len(At(nodes, h).kvs) = order - 1
    /\ \E h \in InternalHandles : Len(At(nodes, h).keys) = order - 1

\* C6: after every put, every internal node has exactly one more child
\* handle than separator keys.
C6_ChildKeyAlignment ==
    \A h \in InternalHandles :
        Len(At(nodes, h).child) = Len(At(nodes, h).keys) + 1

\* the root is an internal node created by a split of the old root: both its
\* children are the halves of that split
C6_Witness ==
    /\ status = "ready"
    /\ IsInternal(nodes, root)
    /\ Len(At(nodes, root).child) = 2
    /\ \A i \in 1..2 : IsInternal(nodes, At(nodes, root).child[i])
    /\ At(nodes, root).child[2] = Len(nodes) - 1

\* C7: after every put, the entries of every leaf are strictly ascending by
\* key and the separator keys of every internal node are strictly ascending.
C7_Sorted ==
    /\ \A h \in LeafHandles : StrictlyAscending(KeysOf(At(nodes, h).kvs))
    /\ \A h \in InternalHandles : StrictlyAscending(At(nodes, h).keys)

\* a leaf with several entries under an internal node with several keys,
\* after an internal node has been split
C7_Witness ==
    /\ status = "ready"
    /\ Cardinality(InternalHandles) >= 3
    /\ \E h \in InternalHandles :
          /\ Len(At(nodes, h).keys) >= 2
          /\ \E i \in 1..Len(At(nodes, h).child) :
                /\ IsLeaf(nodes, At(nodes, h).child[i])
                /\ Len(At(nodes, At(nodes, h).child[i]).kvs) >= 2

\* C8: first_leaf is the handle given at construction and names the leaf
\* reached from root by always following child[0].
C8_FirstLeafLeftmost ==
    /\ first_leaf = new(order).first_leaf
    /\ leftmost_from(nodes, root, {}) = first_leaf

\* the leftmost leaf has been split and lies two levels below the root
C8_Witness ==
    /\ status = "ready"
    /\ At(nodes, first_leaf).next # None
    /\ IsInternal(nodes, root)
    /\ IsInternal(nodes, At(At(nodes, root).child, 0))

\* C9: the stored order is odd and at least 3; new stores an even input n as
\* n+1, the input 1 as 3 and an odd input >= 3 unchanged, so that new(4)
\* builds the tree of new(5), and new(1) and new(2) build the tree of new(3).
C9_OrderNormalized ==
    /\ order % 2 = 1
    /\ order >= 3
    /\ \E o \in 1..MaxOrderIn : order = new(o).order
    /\ \A o \in 1..MaxOrderIn :
          new(o).order = (IF o % 2 = 0 THEN o + 1 ELSE IF o = 1 THEN 3 ELSE o)
    /\ new(4) = new(5)
    /\ new(1) = new(3)
    /\ new(2) = new(3)

\* the tree as new(4) builds it: order 5, one empty leaf
C9_Witness ==
    /\ order = 5
    /\ nodes = new(4).nodes
    /\ root = new(4).root
    /\ status = "ready"

\* C10: the run of main(): one leaf that is the root after b and after the
\* update of d; 2 leaves and an internal root with one separator after c;
\* 3 leaves + 1 internal after h; 4 + 1 after j; 5 + 1 after l; 6 leaves +
\* 3 internals after n, with a root appended by the put of n.
C10_GoldenTrace ==
    /\ step \in {3, 4} =>
          /\ Len(nodes) = 1
          /\ IsLeaf(nodes, root)
    /\ step = 6 =>
          /\ Cardinality(LeafHandles) = 2
          /\ Cardinality(InternalHandles) = 1
          /\ IsInternal(nodes, root)
          /\ Len(At(nodes, root).keys) = 1
    /\ step = 9 => Cardinality(LeafHandles) = 3 /\ Cardinality(InternalHandles) = 1
    /\ step = 11 => Cardinality(LeafHandles) = 4 /\ Cardinality(InternalHandles) = 1
    /\ step = 13 =>
          /\ Cardinality(LeafHandles) = 5
          /\ Cardinality(InternalHandles) = 1
          /\ Len(nodes) = 6
    /\ step = 15 =>
          /\ Cardinality(LeafHandles) = 6
          /\ Cardinality(InternalHandles) = 3
          /\ IsInternal(nodes, root)
          /\ root >= 6
          /\ At(nodes, root).parent = None

\* main() has made all its puts
C10_Witness ==
    /\ step = Len(Script)
    /\ status = "ready"
    /\ Len(nodes) = 9

RECURSIVE subtree_keys(_, _, _)
\* the keys stored in the leaves below `off` (through child handles)
subtree_keys(ns, off, seen) ==
    IF off \in seen \/ off < 0 \/ off >= Len(ns)
    THEN {}
    ELSE IF At(ns, off).kind = "Leaf"
         THEN {At(ns, off).kvs[i].key : i \in 1..Len(At(ns, off).kvs)}
         ELSE UNION {subtree_keys(ns, At(ns, off).child[i], seen \cup {off}) :
                       i \in 1..Len(At(ns, off).child)}

\* C11: for every internal node and every separator keys[i], every key stored
\* below child[i] is < keys[i] and every key stored below child[i+1] is
\* >= keys[i].
C11_SeparatorInvariant ==
    \A h \in InternalHandles :
        \A i \in 1..Len(At(nodes, h).keys) :
            /\ \A k \in subtree_keys(nodes, At(nodes, h).child[i], {h}) :
                  k < At(nodes, h).keys[i]
            /\ \A k \in subtree_keys(nodes, At(nodes, h).child[i + 1], {h}) :
                  k >= At(nodes, h).keys[i]

\* C12: at every internal node search_leaf visits, a key equal to the
\* separator at index idx continues in the child at position idx+1 of the
\* node's child sequence, and a key that matches no separator continues in
\* the child at its insertion position idx.
C12_ExactMatchRoutesRight ==
    \A k \in DeepKeys :
        \A h \in search_path(nodes, root, k, {}) :
            LET n == At(nodes, h)
                r == binary_search(n.keys, k)
            IN search_step(n, k) =
                   (IF r.ok THEN At(n.child, r.idx + 1) ELSE At(n.child, r.idx))

\* C13: for every key, the handle search_leaf returns (when it returns) is a
\* valid index of the arena and names a Leaf, so that the 'not a Leaf'
\* branches of insert and get are never taken.
C13_SearchEndsAtLeaf ==
    \A k \in DeepKeys :
        LET leaf_offset == search_leaf(nodes, root, k)
        IN leaf_offset # Diverge => IsLeaf(nodes, leaf_offset)

RECURSIVE chain_from(_, _, _)
\* the leaves met by following next from `off`, up to the first handle that
\* is None, not a Leaf, or met before
chain_from(ns, off, seen) ==
    IF off \in seen \/ ~IsLeaf(ns, off)
    THEN <<>>
    ELSE <<off>> \o chain_from(ns, At(ns, off).next, seen \cup {off})

\* following next from first_leaf visits every Leaf of the arena exactly once
\* and ends at a leaf whose next is None
ChainCoversLeaves ==
    LET c == chain_from(nodes, first_leaf, {})
    IN /\ Len(c) = Cardinality(LeafHandles)
       /\ {c[i] : i \in 1..Len(c)} = LeafHandles
       /\ At(nodes, c[Len(c)]).next = None

\* the keys met along the chain are strictly ascending
ChainAscending ==
    LET c == chain_from(nodes, first_leaf, {})
    IN /\ \A i \in 1..Len(c) : StrictlyAscending(KeysOf(At(nodes, c[i]).kvs))
       /\ \A i \in 1..Len(c), j \in 1..Len(c) :
             i < j =>
                 \A a \in 1..Len(At(nodes, c[i]).kvs), b \in 1..Len(At(nodes, c[j]).kvs) :
                     At(nodes, c[i]).kvs[a].key < At(nodes, c[j]).kvs[b].key

\* C14: following next from first_leaf visits every Leaf of the arena exactly
\* once and ends at a leaf whose next is None, and the keys met along the
\* chain, leaf after leaf and entry after entry, are strictly ascending.
C14_LeafChain == ChainCoversLeaves /\ ChainAscending

\* C15: after every put, for every internal node N and every handle c in N's
\* child sequence, the parent field of node c is Some(N).
C15_ParentMatchesChild ==
    \A h \in InternalHandles :
        \A i \in 1..Len(At(nodes, h).child) :
            LET c == At(nodes, h).child[i]
            IN c \in Handles /\ At(nodes, c).parent = h

\* the last put split a non-root internal node: the right half is the last
\* node of the arena and holds the leaf appended just before it
C15_Witness ==
    /\ status = "ready"
    /\ Cardinality(InternalHandles) >= 4
    /\ IsInternal(nodes, Len(nodes) - 1)
    /\ IsLeaf(nodes, Len(nodes) - 2)
    /\ \E i \in 1..Len(At(nodes, Len(nodes) - 1).child) :
          At(nodes, Len(nodes) - 1).child[i] = Len(nodes) - 2
    /\ Len(At(nodes, Len(nodes) - 1).child) >= 2

\* the only node of the arena without a parent is the root
RootAlone == {h \in Handles : At(nodes, h).parent = None} = {root}

\* C16: after every put the root handle names the one and only node whose
\* parent is None; a put changes root only when it appends a new Internal
\* root in that call, and root then names that appended node.
C16_RootIdentity ==
    [][/\ RootAlone'
       /\ root' # root =>
             /\ root' >= Len(nodes)
             /\ IsInternal(nodes', root')]_vars

\* the root is no longer the first leaf: a put has appended a root
C16_Witness ==
    /\ status = "ready"
    /\ root # 0
    /\ RootAlone
    /\ Cardinality(InternalHandles) = 3

\* C17: in no put is push_data invoked with a separator key that is already
\* present in the keys of the target internal node.
C17_PushNeverSkips ==
    status = "ready" =>
        \A k \in DeepKeys : ~put_skips_push(nodes, root, order, k, 1)

\* C18: when split_nodes splits a full internal node (order-1 keys, order
\* children), the key it promotes is the key split() removes from both
\* halves: the left half keeps the keys below it and the first order/2+1
\* children, the right half gets the keys above it and the other children,
\* and nothing else is lost or duplicated.
C18_InternalSplitConserves ==
    \A h \in InternalHandles :
        Len(At(nodes, h).keys) = order - 1 =>
            LET n == At(nodes, h)
                sp == split(n)
                center_key == center_key_of(n, order)
            IN /\ sp.self.keys \o <<center_key>> \o sp.new.keys = n.keys
               /\ sp.self.child \o sp.new.child = n.child
               /\ Len(sp.self.child) = order \div 2 + 1
               /\ Len(sp.self.keys) = order \div 2
               /\ sp.self.parent = n.parent

\* an internal node has been split before, and a full non-root internal node
\* is there to be split
C18_Witness ==
    /\ status = "ready"
    /\ Cardinality(InternalHandles) >= 3
    /\ \E h \in InternalHandles :
          /\ h # root
          /\ Len(At(nodes, h).keys) = order - 1
          /\ Len(At(nodes, h).child) = order

\* the depths at which the walk from node off, itself at depth d, meets a leaf
RECURSIVE leaf_depths(_, _, _, _)
leaf_depths(ns, off, d, seen) ==
    IF off \in seen \/ off < 0 \/ off >= Len(ns) THEN {}
    ELSE IF At(ns, off).kind = "Leaf" THEN {d}
    ELSE UNION {leaf_depths(ns, At(ns, off).child[i], d + 1, seen \cup {off}) :
                   i \in 1..Len(At(ns, off).child)}

\* the kinds of the children of the internal node h
child_kinds(ns, h) ==
    {IF At(ns, h).child[i] >= 0 /\ At(ns, h).child[i] < Len(ns)
     THEN At(ns, At(ns, h).child[i]).kind ELSE "none" :
        i \in 1..Len(At(ns, h).child)}

\* C19: all leaves are at the same depth below the root, and the children
\* of an internal node are either all leaves or all internal nodes.
C19_Balanced ==
    /\ Cardinality(leaf_depths(nodes, root, 0, {})) = 1
    /\ \A h \in InternalHandles :
          child_kinds(nodes, h) \in {{"Leaf"}, {"Internal"}}

\* a tree of three levels: the root has internal children
C19_Witness ==
    /\ status = "ready"
    /\ IsInternal(nodes, root)
    /\ child_kinds(nodes, root) = {"Internal"}
    /\ leaf_depths(nodes, root, 0, {}) = {2}
    /\ Cardinality(LeafHandles) >= 5

\* the handles met by walking from node off through child handles
RECURSIVE reachable_from(_, _, _)
reachable_from(ns, off, seen) ==
    IF off \in seen \/ off < 0 \/ off >= Len(ns) THEN {}
    ELSE IF At(ns, off).kind = "Leaf" THEN {off}
    ELSE {off} \cup UNION {reachable_from(ns, At(ns, off).child[i], seen \cup {off}) :
                              i \in 1..Len(At(ns, off).child)}

\* the places <<h, i>> of the arena where handle c is the i-th child of h
child_places(ns, c) ==
    {p \in {<<h, i>> : h \in 0..(Len(ns) - 1), i \in 1..(MaxOrderIn + 1)} :
        /\ At(ns, p[1]).kind = "Internal"
        /\ p[2] <= Len(At(ns, p[1]).child)
        /\ At(ns, p[1]).child[p[2]] = c}

\* C20: every node of the arena other than root appears exactly once in the
\* child sequence of exactly one internal node, and every node of the arena
\* is reachable from root through child handles.
C20_TreeShape ==
    /\ \A c \in Handles \ {root} : Cardinality(child_places(nodes, c)) = 1
    /\ reachable_from(nodes, root, {}) = Handles

====
